---------------------------- MODULE Spec2Model ----------------------------
(***************************************************************************)
(* Tool-call extraction in the ChatGPT MCP extension.                      *)
(*                                                                         *)
(* The text of a code block is modelled as a sequence of tokens, one token *)
(* per physical line of the block:                                         *)
(*   "FC"   <function_calls>          "xFC"  </function_calls>             *)
(*   "Ia1"  <invoke name="a" call_id="1">                                  *)
(*   "Ib"   <invoke name="b">         "xINV" </invoke>                     *)
(*   "P"    <parameter name="p">      "xP"   </parameter>                  *)
(*   "V"    one chunk of parameter text that is no JSON literal            *)
(*   "N"    the parameter text 5                                           *)
(*   "LANG" a leading language label (xml)   "COPY"  Copy code             *)
(*   "Sa1"  {"type":"function_call_start","name":"a","call_id":"1"}        *)
(*   "Sb"   {"type":"function_call_start","name":"b"}                      *)
(*   "A"    {"type":"function_call_arg","name":"x","value":5}              *)
(*   "E"    {"type":"function_call_end"}                                   *)
(*   "SE"   {"type":"function_call_start","name":"b"}{"type":"function_call_end"} *)
(*   "PL"   {"type":"parameter","key":"x","value":5}                       *)
(*   "PLv"  {"type":"parameter","key":"x","value":"v"}                     *)
(*   "PLw"  {"type":"parameter","key":"x","value":"w"}                     *)
(*   "PLy"  {"type":"parameter","key":"y","value":"u"}                     *)
(*   "PPw"  {"type":"parameter","key":"x","value":"w     (still streaming) *)
(*   "X"    a line of prose                                                *)
(***************************************************************************)
EXTENDS Integers, Sequences, FiniteSets, TLC

VARIABLES
    doc,                \* block -> index into Docs: the text the block is streaming
    len,                \* block -> number of tokens of doc[b] already in the DOM
    processedElements,  \* ChatGPTMCPExtension.processedElements
    emitted,            \* block -> calls handed to injectExecutionUI, in order
    scanned,            \* a scan has run since the text of any block last changed
    idCounter,          \* ToolCallParser.idCounter of the extension's parser
    autoMode,           \* mcpSettings.autoExecute && mcpSettings.enabled && connectionStatus.isConnected
    executingTools,     \* ToolExecutor.executingTools
    inflight,           \* executions suspended at an await of executeToolInContainer
    disabledBtns,       \* <<block, ord>> of the injected UIs whose runBtn.disabled is true
    callsSent,          \* <<block, ord>> of the injected calls MCP_CALL_TOOL was sent for
    ptext,              \* ParseSpec: the text handed to the parser
    pctr,               \* ParseSpec: ToolCallParser.idCounter
    pout,               \* ParseSpec: results of the successive parseMessage calls
    pinfo,              \* ParseSpec: results of the classifiers on ptext
    pclean,             \* TextSpec: result of cleanCodeBlockText on ptext
    pparams,            \* TextSpec: result of extractJSONParameters on ptext
    mcp,                \* ClientSpec: the MCPClient, its socket and its timers
    wst,                \* TransportSpec: one WebSocketTransport and its socket
    bg,                 \* BackgroundSpec: saved settings and the last connect
    asv                 \* AutomationSpec: the AutomationService and the chat input

vars == <<doc, len, processedElements, emitted, scanned, idCounter, autoMode,
          executingTools, inflight, disabledBtns, callsSent, ptext, pctr, pout, pinfo,
          pclean, pparams, mcp, wst, bg, asv>>

scanVars == <<doc, len, processedElements, emitted, scanned, idCounter, autoMode,
              executingTools, inflight, disabledBtns, callsSent>>
parseVars == <<ptext, pctr, pout, pinfo, pclean, pparams>>
\* what the page's actions leave alone, and what the parser's leave alone
offPage == <<parseVars, mcp, wst, bg, asv>>
offParser == <<scanVars, mcp, wst, bg, asv>>
offClient == <<scanVars, parseVars, wst, bg, asv>>
offTransport == <<scanVars, parseVars, mcp, bg, asv>>
offBackground == <<scanVars, parseVars, mcp, wst, asv>>
offAutomation == <<scanVars, parseVars, mcp, wst, bg>>

---------------------------------------------------------------------------
(* Bounds *)

MaxNow == 1
MaxParses == 2
MaxXmlLen == 5
MaxJsonLen == 4
MaxNormLen == 3
MaxParamLen == 3
MaxTimers == 2
MaxOrphans == 1
MaxMessages == 4
MaxEvents == 2

\* MCPClient.maxReconnectAttempts
maxReconnectAttempts == 3

\* the <pre> elements of the page, in document order
PreBlocks == <<"pre1", "pre2">>
Blocks == {PreBlocks[i] : i \in 1..Len(PreBlocks)}
Times == 0..MaxNow

---------------------------------------------------------------------------
(* Tokens *)

XmlTok == {"FC", "xFC", "Ia1", "Ib", "xINV"}
JsonTok == {"Sa1", "Sb", "A", "E", "X"}

IsInvoke(t) == t \in {"Ia1", "Ib"}
invokeName(t) == IF t = "Ia1" THEN "a" ELSE "b"
\* invokeMatch[2]: the call_id attribute, "" when the attribute is absent
invokeCallId(t) == IF t = "Ia1" THEN "1" ELSE ""

IsJsonStart(t) == t \in {"Sa1", "Sb"}
jsonName(t) == IF t = "Sa1" THEN "a" ELSE "b"
jsonCallId(t) == IF t = "Sa1" THEN "1" ELSE ""
\* the line is a JSON object JSON.parse accepts
IsJsonLine(t) == t \in {"Sa1", "Sb", "A", "E", "PL", "PLv", "PLw", "PLy"}
\* the line holds "type" and function_call or parameter
LooksJson(t) == IsJsonLine(t) \/ t = "SE"

Min(S) == CHOOSE x \in S : \A y \in S : x <= y

\* first index >= from holding tok, 0 when there is none
indexOf(s, tok, from) ==
    LET S == {i \in from..Len(s) : s[i] = tok}
    IN IF S = {} THEN 0 ELSE Min(S)

includes(s, tok) == \E i \in 1..Len(s) : s[i] = tok

SeqsUpTo(S, n) == UNION {[1..k -> S] : k \in 0..n}

NoArgs == [x \in {} |-> <<>>]


---------------------------------------------------------------------------
(* ToolCallParser *)

\* mutant: the counter is left out of the identity
generateIdClockOnly(now, ctr) == "tool-call-" \o ToString(now)

generateId(now, ctr) == "tool-call-" \o ToString(now) \o "-" \o ToString(ctr)

\* JSON.parse of a parameter's text, the text itself when JSON.parse throws:
\* the text 5 becomes the number 5, every other text of the alphabet is kept
parseValue(value) == IF value = <<"N">> THEN <<"number 5">> ELSE value

\* text.matchAll(/<function_calls>([\s\S]*?)<\/function_calls>/g): the
\* captured contents, leftmost first, each ending at the first closing tag
RECURSIVE completeMatches(_, _)
completeMatches(text, from) ==
    LET i == indexOf(text, "FC", from)
        j == IF i = 0 THEN 0 ELSE indexOf(text, "xFC", i + 1)
    IN IF i = 0 \/ j = 0
       THEN <<>>
       ELSE <<SubSeq(text, i + 1, j - 1)>> \o completeMatches(text, j + 1)

\* text.match(/<function_calls>([\s\S]*?)$/): from the first opening tag to
\* the end of the text
incompleteMatch(text) ==
    LET i == indexOf(text, "FC", 1)
    IN IF i = 0 THEN <<>> ELSE <<SubSeq(text, i + 1, Len(text))>>

\* content.matchAll(invokeRegex): each match runs from an <invoke ...> to the
\* first </invoke> after it, or to the end of the content when there is none
RECURSIVE invokeMatches(_, _)
invokeMatches(content, from) ==
    LET I == {i \in from..Len(content) : IsInvoke(content[i])}
    IN IF I = {}
       THEN <<>>
       ELSE LET i == Min(I)
                j == indexOf(content, "xINV", i + 1)
                e == IF j = 0 THEN Len(content) ELSE j
            IN <<[open |-> content[i],
                  body |-> SubSeq(content, i + 1, IF j = 0 THEN e ELSE j - 1),
                  raw  |-> SubSeq(content, i, e)]>>
               \o invokeMatches(content, e + 1)

\* parametersContent.matchAll(parameterRegex): the captured values; a value
\* runs to the first </parameter>, or to the end when there is none
RECURSIVE paramMatches(_, _)
paramMatches(body, from) ==
    LET i == indexOf(body, "P", from)
    IN IF i = 0
       THEN <<>>
       ELSE LET j == indexOf(body, "xP", i + 1)
                e == IF j = 0 THEN Len(body) ELSE j
            IN <<SubSeq(body, i + 1, IF j = 0 THEN e ELSE j - 1)>>
               \o paramMatches(body, e + 1)

\* args[paramName] = parseValue(paramValue) for each match: every parameter
\* of the alphabet is named p, so the last match wins
parseParameters(body) ==
    LET ms == paramMatches(body, 1)
    IN IF ms = <<>> THEN NoArgs ELSE [p |-> parseValue(ms[Len(ms)])]

\* mutant: the calls are collected last match first
RECURSIVE buildCallsReversed(_, _, _)
buildCallsReversed(ms, ctr, now) ==
    IF ms = <<>>
    THEN [calls |-> <<>>, ctr |-> ctr]
    ELSE LET m == Head(ms)
             given == invokeCallId(m.open)
             rest == buildCallsReversed(Tail(ms), IF given # "" THEN ctr ELSE ctr + 1, now)
         IN [calls |-> rest.calls \o
                       <<[id        |-> IF given # "" THEN given ELSE generateId(now, ctr),
                          toolName  |-> invokeName(m.open),
                          arguments |-> parseParameters(m.body),
                          rawText   |-> m.raw,
                          format    |-> "xml"]>>,
             ctr |-> rest.ctr]

RECURSIVE buildCalls(_, _, _)
buildCalls(ms, ctr, now) ==
    IF ms = <<>>
    THEN [calls |-> <<>>, ctr |-> ctr]
    ELSE LET m == Head(ms)
             given == invokeCallId(m.open)
             rest == buildCalls(Tail(ms), IF given # "" THEN ctr ELSE ctr + 1, now)
         IN [calls |-> <<[id        |-> IF given # "" THEN given ELSE generateId(now, ctr),
                          toolName  |-> invokeName(m.open),
                          arguments |-> parseParameters(m.body),
                          rawText   |-> m.raw,
                          format    |-> "xml"]>> \o rest.calls,
             ctr |-> rest.ctr]

parseInvokeBlocks(content, ctr, now) == buildCalls(invokeMatches(content, 1), ctr, now)

RECURSIVE parseContainers(_, _, _)
parseContainers(cs, ctr, now) ==
    IF cs = <<>>
    THEN [calls |-> <<>>, ctr |-> ctr]
    ELSE LET first == parseInvokeBlocks(Head(cs), ctr, now)
             rest == parseContainers(Tail(cs), first.ctr, now)
         IN [calls |-> first.calls \o rest.calls, ctr |-> rest.ctr]

\* the containers parseXMLFormat hands to parseInvokeBlocks
xmlContainers(text) ==
    LET complete == completeMatches(text, 1)
    IN IF Len(complete) > 0 THEN complete ELSE incompleteMatch(text)

parseXMLFormat(text, ctr, now) == parseContainers(xmlContainers(text), ctr, now)

\* one iteration of the loop over the lines; cur is <<>> (currentCall null)
\* or <<currentCall>>
jsonLine(st, line, now) ==
    IF IsJsonStart(line)
    THEN [st EXCEPT !.cur = <<[id        |-> generateId(now, st.ctr),
                               toolName  |-> jsonName(line),
                               arguments |-> NoArgs,
                               rawText   |-> <<line>>,
                               format    |-> "json"]>>,
                    !.ctr = st.ctr + 1]
    ELSE IF line = "A" /\ st.cur # <<>>
    THEN [st EXCEPT !.cur = <<[st.cur[1] EXCEPT !.arguments = [x |-> 5],
                                                !.rawText = @ \o <<line>>]>>]
    ELSE IF line = "E" /\ st.cur # <<>>
    THEN [st EXCEPT !.calls = @ \o <<[st.cur[1] EXCEPT !.rawText = @ \o <<line>>]>>,
                    !.cur = <<>>]
    ELSE st

RECURSIVE jsonLines(_, _, _)
jsonLines(st, lines, now) ==
    IF lines = <<>> THEN st ELSE jsonLines(jsonLine(st, Head(lines), now), Tail(lines), now)

parseJSONFormat(text, ctr, now) ==
    LET st == jsonLines([calls |-> <<>>, cur |-> <<>>, ctr |-> ctr], text, now)
    IN [calls |-> st.calls \o st.cur, ctr |-> st.ctr]

parseMessage(text, ctr, now) ==
    LET xml == parseXMLFormat(text, ctr, now)
    IN IF Len(xml.calls) = 0 THEN parseJSONFormat(text, xml.ctr, now) ELSE xml

---------------------------------------------------------------------------
(* Completeness classifiers *)

NoInfo == [hasFunctionCalls |-> FALSE, isComplete |-> FALSE, hasInvoke |-> FALSE,
           hasClosingTags |-> FALSE, detectedBlockType |-> "none"]

\* the switch over the parsed lines: a line that JSON.parse rejects is skipped
RECURSIVE jsonState(_, _)
jsonState(st, lines) ==
    IF lines = <<>>
    THEN st
    ELSE LET l == Head(lines)
             nxt == IF IsJsonStart(l) THEN [st EXCEPT !.hasFunctionStart = TRUE]
                    ELSE IF l = "E" THEN [st EXCEPT !.hasFunctionEnd = TRUE]
                    ELSE st
         IN jsonState(nxt, Tail(lines))

\* content.split('\n'), or the split at }{ when the content is one line
\* holding more than one {
splitLines(text) ==
    IF Len(text) = 1 /\ text[1] = "SE" THEN <<"Sb", "E">> ELSE text

containsJSONFunctionCalls(text) ==
    LET quick == \E i \in 1..Len(text) : LooksJson(text[i])
        st == jsonState([hasFunctionStart |-> FALSE, hasFunctionEnd |-> FALSE],
                        splitLines(text))
    IN IF ~quick \/ ~st.hasFunctionStart
       THEN NoInfo
       ELSE [hasFunctionCalls |-> TRUE,
             isComplete |-> st.hasFunctionStart /\ st.hasFunctionEnd,
             hasInvoke |-> st.hasFunctionStart,
             hasClosingTags |-> st.hasFunctionEnd,
             detectedBlockType |-> "json"]

isJSONFunctionStreaming(text) ==
    LET st == jsonState([hasFunctionStart |-> FALSE, hasFunctionEnd |-> FALSE], text)
    IN st.hasFunctionStart /\ ~st.hasFunctionEnd

\* the line is a parameter object, whole or still streaming
IsParamLine(t) == t \in {"PL", "PLv", "PLw", "PLy", "PPw"}
paramKey(t) == IF t = "PLy" THEN "y" ELSE "x"
\* parsed.value, or the text the fallback pattern captures
paramLineValue(t) ==
    IF t = "PL" THEN "number 5" ELSE IF t = "PLv" THEN "v" ELSE IF t = "PLy" THEN "u" ELSE "w"
\* the fallback pattern matches a parameter object whose value opens a string
MatchesParameterPattern(t) == t \in {"PLv", "PLw", "PLy", "PPw"}

\* first pass: every line parseJSONLine accepts, of type parameter, in order
RECURSIVE firstPass(_, _)
firstPass(parameters, lines) ==
    IF lines = <<>>
    THEN parameters
    ELSE LET l == Head(lines)
         IN firstPass(IF IsParamLine(l) /\ IsJsonLine(l)
                      THEN [k \in DOMAIN parameters \cup {paramKey(l)} |->
                               IF k = paramKey(l) THEN paramLineValue(l) ELSE parameters[k]]
                      ELSE parameters,
                      Tail(lines))

\* second pass: every match of the fallback pattern, in order, kept only
\* when the key is not set yet
RECURSIVE secondPass(_, _)
secondPass(parameters, lines) ==
    IF lines = <<>>
    THEN parameters
    ELSE LET l == Head(lines)
         IN secondPass(IF MatchesParameterPattern(l) /\ paramKey(l) \notin DOMAIN parameters
                       THEN [k \in DOMAIN parameters \cup {paramKey(l)} |->
                                IF k = paramKey(l) THEN paramLineValue(l) ELSE parameters[k]]
                       ELSE parameters,
                       Tail(lines))

extractJSONParameters(content) == secondPass(firstPass(NoArgs, content), content)

containsFunctionCalls(text) ==
    LET jsonResult == containsJSONFunctionCalls(text)
        hasInvoke == \E i \in 1..Len(text) : IsInvoke(text[i])
        hasOpeningTag == includes(text, "FC")
        hasClosingTag == includes(text, "xFC")
    IN IF jsonResult.hasFunctionCalls
       THEN jsonResult
       ELSE IF hasOpeningTag \/ hasInvoke
       THEN [hasFunctionCalls |-> TRUE,
             isComplete |-> hasOpeningTag /\ hasClosingTag,
             hasInvoke |-> hasInvoke,
             hasClosingTags |-> hasOpeningTag /\ hasClosingTag,
             detectedBlockType |-> "xml"]
       ELSE NoInfo

---------------------------------------------------------------------------
(* The page: code blocks that grow as the answer streams in *)

\* the answers a block may be streaming: one invocation with a call id and a
\* parameter; two invocations in one container, under a language label and
\* the copy button's text; one JSON-Lines invocation
Docs == <<
    <<"FC", "Ia1", "P", "V", "xP", "xINV", "xFC">>,
    <<"LANG", "COPY", "FC", "Ia1", "xINV", "Ib", "xINV", "xFC">>,
    <<"Sa1", "A", "E">>
>>

\* preElement.textContent
textContent(b) == SubSeq(Docs[doc[b]], 1, len[b])

RECURSIVE removeAll(_, _)
removeAll(s, tok) ==
    IF s = <<>> THEN <<>>
    ELSE (IF Head(s) = tok THEN <<>> ELSE <<Head(s)>>) \o removeAll(Tail(s), tok)

\* the leading language label is dropped, then every "Copy code"
cleanCodeBlockText(text) ==
    LET noLang == IF Len(text) > 0 /\ text[1] = "LANG" THEN Tail(text) ELSE text
    IN removeAll(noLang, "COPY")

---------------------------------------------------------------------------
(* ToolExecutor *)

\* mutant: no check of executingTools
executeToolInContainerNoGuard(st, b, ord, id) ==
    [st EXCEPT !.executingTools = @ \cup {id},
               !.inflight = @ \cup {[b |-> b, ord |-> ord, id |-> id, pc |-> "status"]},
               !.ran = TRUE]

\* executeToolInContainer up to its first await: st carries executingTools
\* and inflight; the result says whether the call got past the guard
executeToolInContainer(st, b, ord, id) ==
    IF id \in st.executingTools
    THEN [st EXCEPT !.ran = FALSE]
    ELSE [st EXCEPT !.executingTools = @ \cup {id},
                    !.inflight = @ \cup {[b |-> b, ord |-> ord, id |-> id, pc |-> "status"]},
                    !.ran = TRUE]

---------------------------------------------------------------------------
(* ChatGPTMCPExtension *)

\* mutant: the call is executed at once whatever the settings are
injectExecutionUIAlways(st, b, ord, call, snap) ==
    LET ex == executeToolInContainer([st EXCEPT !.disabled = @ \cup {<<b, ord>>}],
                                     b, ord, call.id)
    IN [ex EXCEPT !.emitted[b] = @ \o <<[ord |-> ord, call |-> call, snap |-> snap,
                                         auto |-> autoMode, ran |-> ex.ran]>>]

\* injectExecutionUI for toolCalls[ord]: the UI is appended to the message,
\* then the call is executed at once in auto mode. Each entry of emitted
\* keeps the text the call was parsed from (snap), whether the auto branch
\* was taken (auto) and whether executeToolInContainer got past its guard.
injectExecutionUI(st, b, ord, call, snap) ==
    LET ex == IF autoMode
              THEN executeToolInContainer([st EXCEPT !.disabled = @ \cup {<<b, ord>>}],
                                          b, ord, call.id)
              ELSE [st EXCEPT !.ran = FALSE]
    IN [ex EXCEPT !.emitted[b] = @ \o <<[ord |-> ord, call |-> call, snap |-> snap,
                                         auto |-> autoMode, ran |-> ex.ran]>>]

RECURSIVE injectAll(_, _, _, _, _)
injectAll(st, b, calls, ord, snap) ==
    IF ord > Len(calls)
    THEN st
    ELSE injectAll(injectExecutionUI(st, b, ord, calls[ord], snap), b, calls, ord + 1, snap)

\* the body of preBlocks.forEach past the processedElements check
scanUnprocessed(st, b, now) ==
    LET raw == textContent(b)
    IN IF ~includes(raw, "FC") /\ ~(\E i \in 1..Len(raw) : IsInvoke(raw[i]))
       THEN st
       ELSE LET text == cleanCodeBlockText(raw)
                r == parseMessage(text, st.idCounter, now)
            IN IF Len(r.calls) > 0
               THEN injectAll([st EXCEPT !.processedElements = @ \cup {b},
                                         !.idCounter = r.ctr],
                              b, r.calls, 1, text)
               ELSE [st EXCEPT !.idCounter = r.ctr]

\* mutant: the processedElements check is missing
scanBlockNoGuard(st, b, now) == scanUnprocessed(st, b, now)

\* mutant: a processed <pre> whose text has changed since it was parsed is
\* unmarked, to be parsed again by the next scan
scanBlockUnmark(st, b, now) ==
    IF b \in st.processedElements
    THEN IF cleanCodeBlockText(textContent(b)) # st.emitted[b][1].snap
         THEN [st EXCEPT !.processedElements = @ \ {b}]
         ELSE st
    ELSE scanUnprocessed(st, b, now)

\* the body of preBlocks.forEach for one <pre>
scanBlock(st, b, now) ==
    IF b \in st.processedElements THEN st ELSE scanUnprocessed(st, b, now)

\* preBlocks.forEach
RECURSIVE scanBlocks(_, _, _)
scanBlocks(st, bs, now) ==
    IF bs = <<>> THEN st ELSE scanBlocks(scanBlock(st, Head(bs), now), Tail(bs), now)

scanForToolCalls(now) ==
    scanBlocks([processedElements |-> processedElements, emitted |-> emitted,
                idCounter |-> idCounter, executingTools |-> executingTools,
                inflight |-> inflight, disabled |-> disabledBtns, ran |-> FALSE],
               PreBlocks, now)

---------------------------------------------------------------------------
(* WebSocketTransport *)

\* MCPClient.transport before the first connect and after disconnect: no
\* transport. wire is what ws.send has put on a socket so far and submitted
\* the number of messages passed to send so far; messages are numbered in the
\* order they are passed to send.
NewTransport ==
    [ws |-> "null", isConnected |-> FALSE, messageQueue |-> <<>>, wire |-> <<>>,
     submitted |-> 0]

\* send: ws.send when connected and the socket is OPEN, the queue otherwise
send(t, message) ==
    IF ~t.isConnected \/ t.ws # "OPEN"
    THEN [t EXCEPT !.messageQueue = Append(@, message)]
    ELSE [t EXCEPT !.wire = Append(@, message)]

RECURSIVE sendAll(_, _)
sendAll(t, queue) ==
    IF queue = <<>> THEN t ELSE sendAll(send(t, Head(queue)), Tail(queue))

\* processMessageQueue: the queue is copied and emptied, and each message of
\* the copy is passed to send
processMessageQueue(t) ==
    sendAll([t EXCEPT !.messageQueue = <<>>], t.messageQueue)

---------------------------------------------------------------------------
(* MCPClient *)

\* a new MCPClient: no client, no transport (sock "none"), no connect call in
\* flight (call "idle"), no reconnect timer pending. orphans counts the
\* WebSocket sockets closed by disconnect whose close event has not fired
\* yet; autoAttempts counts the automatic connect calls since the last
\* successful connect, and stops counting past maxReconnectAttempts + 1.
\* leaked counts the sockets that were connecting or open when the client
\* dropped its reference to their transport without closing it; opens counts
\* the connections that opened, up to 2; broadcast is the isConnected value
\* of the last MCP_STATUS_CHANGED the background sent ("none" before the
\* first); dropped says that a reconnect timer fired and started nothing;
\* stopped says that the last call from outside was disconnect.
NewClient ==
    [client |-> FALSE, currentType |-> "none", reconnectAttempts |-> 0,
     isInitialized |-> FALSE, timers |-> 0, sock |-> "none", call |-> "idle",
     orphans |-> 0, autoAttempts |-> 0, leaked |-> 0, opens |-> 0,
     broadcast |-> "none", dropped |-> FALSE, stopped |-> FALSE]

TransportTypes == {"websocket", "sse"}

\* handleDisconnect, the listener of every WebSocketTransport's close event
handleDisconnect(st) ==
    IF st.currentType = "websocket" /\ st.reconnectAttempts < maxReconnectAttempts
    THEN [st EXCEPT !.isInitialized = FALSE,
                    !.broadcast = "false",
                    !.reconnectAttempts = @ + 1,
                    !.timers = @ + 1]
    ELSE [st EXCEPT !.isInitialized = FALSE, !.broadcast = "false"]

\* mutant: disconnect keeps the connection target
disconnectKeepsTarget(st) ==
    [st EXCEPT !.client = FALSE,
               !.sock = "none",
               !.call = "idle",
               !.orphans = IF st.currentType = "websocket" /\ st.sock \in {"connecting", "open"}
                           THEN @ + 1 ELSE @,
               !.isInitialized = FALSE,
               !.broadcast = "false"]

\* disconnect: client and transport are closed and dropped; a WebSocket
\* socket that was connecting or open fires its close event later
disconnect(st) ==
    [st EXCEPT !.client = FALSE,
               !.sock = "none",
               !.call = "idle",
               !.orphans = IF st.currentType = "websocket" /\ st.sock \in {"connecting", "open"}
                           THEN @ + 1 ELSE @,
               !.currentType = "none",
               !.isInitialized = FALSE,
               !.broadcast = "false"]

\* mutant: connect does not disconnect the client it replaces
connectWithoutDisconnect(st, type, by) ==
    [st EXCEPT !.currentType = type, !.client = TRUE, !.sock = "connecting",
               !.call = by,
               !.leaked = IF st.sock \in {"connecting", "open"} THEN @ + 1 ELSE @]

\* connect up to its await of client.connect(transport): by is "manual" or
\* "auto". this.transport is overwritten, whatever it referenced.
connect(st, type, by) ==
    LET d == IF st.client THEN disconnect(st) ELSE st
    IN [d EXCEPT !.currentType = type, !.client = TRUE, !.sock = "connecting",
                 !.call = by,
                 !.leaked = IF d.sock \in {"connecting", "open"} THEN @ + 1 ELSE @]

---------------------------------------------------------------------------
(* The background script: which proxy a connect targets *)

DEFAULT_CONFIG == [uri |-> "ws://localhost:3006/message", type |-> "websocket"]

\* no payload, and a storage key that is not set
Undefined == [uri |-> "", type |-> ""]

Uris == {"ws://localhost:3006/message", "ws://proxy:8080/message", "http://proxy:8080/sse"}
ConfigTypes == {"websocket", "sse", "streamable-http"}
Configs == [uri : Uris, type : ConfigTypes]

\* a fresh install: nothing saved, no connect made. by names what started
\* the last connect, target is the request it passed to MCPClient.connect,
\* savedThen is what storage held at that moment, and isConnected is what
\* MCP_GET_STATUS answers.
NewBackground ==
    [proxyUrl |-> "", transportType |-> "", by |-> "none", target |-> Undefined,
     savedThen |-> Undefined, isConnected |-> FALSE]

\* getSavedConfig: settings are the two storage keys; failed says that
\* chrome.storage.local.get threw
getSavedConfig(settings, failed) ==
    IF ~failed /\ settings.uri # "" /\ settings.type # ""
    THEN [uri |-> settings.uri, type |-> settings.type]
    ELSE DEFAULT_CONFIG

\* the config handleConnect passes to client.connect
handleConnectConfig(payload) ==
    IF payload # Undefined THEN payload ELSE DEFAULT_CONFIG

---------------------------------------------------------------------------
(* AutomationService and the chat input *)

Events == 1..MaxEvents

\* the text insertText puts into the chat input for event e: its result
\* wrapped in <function_result call_id=...>
wrappedResult(e) == "result " \o ToString(e)

\* an AutomationService with the default state, and an empty chat input.
\* ev[e].pc is where the handler of event e stands ("none" before the event),
\* insertSleep and submitSleep list the handlers asleep in handleAutoInsert
\* and handleAutoSubmit in the order their timers run out, clicks lists the
\* clicks on the send button: the event whose handler clicked and the text
\* the input held.
NewAutomation ==
    [autoInsert |-> FALSE, autoSubmit |-> FALSE,
     ev |-> [e \in Events |-> [pc |-> "none", result |-> FALSE, inserted |-> FALSE]],
     insertSleep |-> <<>>, submitSleep |-> <<>>, input |-> "", clicks |-> <<>>]

\* handleToolExecutionComplete past its call of handleAutoInsert
afterInsert(st, e) ==
    IF st.autoSubmit /\ st.autoInsert
    THEN [st EXCEPT !.ev[e].pc = "submitSleep", !.submitSleep = Append(@, e)]
    ELSE [st EXCEPT !.ev[e].pc = "done"]

\* handleToolExecutionComplete up to its first sleep
handleToolExecutionComplete(st, e, result) ==
    LET st1 == [st EXCEPT !.ev[e].result = result]
    IN IF st.autoInsert /\ result
       THEN [st1 EXCEPT !.ev[e].pc = "insertSleep", !.insertSleep = Append(@, e)]
       ELSE afterInsert(st1, e)

\* insertText: found says that the chat input element was found
insertText(st, e, found) ==
    IF found
    THEN [st EXCEPT !.input = wrappedResult(e), !.ev[e].inserted = TRUE]
    ELSE st

\* clickSendButton: disabled says that the send button is missing or
\* disabled; a click sends what the input holds and empties it
clickSendButton(st, e, disabled) ==
    IF disabled
    THEN st
    ELSE [st EXCEPT !.clicks = Append(@, [event |-> e, text |-> st.input]),
                    !.input = ""]

---------------------------------------------------------------------------
(* Actions *)

\* the answer streams one more token into block b
Grow(b) ==
    /\ len[b] < Len(Docs[doc[b]])
    /\ len' = [len EXCEPT ![b] = @ + 1]
    /\ scanned' = FALSE
    /\ UNCHANGED <<doc, processedElements, emitted, idCounter, autoMode,
                   executingTools, inflight, disabledBtns, callsSent>>
    /\ UNCHANGED offPage

\* the MutationObserver callback (or startMonitoring) runs scanForToolCalls
Scan ==
    \E now \in Times :
        LET st == scanForToolCalls(now)
        IN /\ processedElements' = st.processedElements
           /\ emitted' = st.emitted
           /\ idCounter' = st.idCounter
           /\ executingTools' = st.executingTools
           /\ inflight' = st.inflight
           /\ disabledBtns' = st.disabled
           /\ scanned' = TRUE
           /\ UNCHANGED <<doc, len, autoMode, callsSent>>
           /\ UNCHANGED offPage

\* settings or connection status change
SettingsChange ==
    /\ autoMode' = ~autoMode
    /\ UNCHANGED <<doc, len, processedElements, emitted, scanned, idCounter,
                   executingTools, inflight, disabledBtns, callsSent>>
    /\ UNCHANGED offPage

\* runBtn.onclick, wired only when the UI was injected in manual mode; a
\* disabled button takes no click. The handler disables the button and calls
\* executeToolInContainer, which returns at once, leaving the button
\* disabled, when the identity is executing.
RunClick(b, k) ==
    /\ k \in 1..Len(emitted[b])
    /\ ~emitted[b][k].auto
    /\ <<b, emitted[b][k].ord>> \notin disabledBtns
    /\ LET st == executeToolInContainer([executingTools |-> executingTools,
                                         inflight |-> inflight, ran |-> FALSE],
                                        b, emitted[b][k].ord, emitted[b][k].call.id)
       IN /\ executingTools' = st.executingTools
          /\ inflight' = st.inflight
    /\ disabledBtns' = disabledBtns \cup {<<b, emitted[b][k].ord>>}
    /\ UNCHANGED <<doc, len, processedElements, emitted, scanned, idCounter, autoMode,
                   callsSent>>
    /\ UNCHANGED offPage

\* mutant: the not-connected path returns without releasing the identity
ExecStatusKeepsId(e, connected) ==
    /\ e \in inflight
    /\ e.pc = "status"
    /\ IF connected
       THEN /\ inflight' = (inflight \ {e}) \cup {[e EXCEPT !.pc = "call"]}
            /\ callsSent' = callsSent \cup {<<e.b, e.ord>>}
            /\ UNCHANGED <<executingTools, disabledBtns>>
       ELSE /\ inflight' = inflight \ {e}
            /\ disabledBtns' = disabledBtns \ {<<e.b, e.ord>>}
            /\ UNCHANGED <<callsSent, executingTools>>
    /\ UNCHANGED <<doc, len, processedElements, emitted, scanned, idCounter, autoMode>>
    /\ UNCHANGED offPage

\* the MCP_GET_STATUS reply arrives (or sendMessage throws): when connected,
\* MCP_CALL_TOOL is sent; otherwise resetButtonState, and the identity is
\* released
ExecStatus(e, connected) ==
    /\ e \in inflight
    /\ e.pc = "status"
    /\ IF connected
       THEN /\ inflight' = (inflight \ {e}) \cup {[e EXCEPT !.pc = "call"]}
            /\ callsSent' = callsSent \cup {<<e.b, e.ord>>}
            /\ UNCHANGED <<executingTools, disabledBtns>>
       ELSE /\ inflight' = inflight \ {e}
            /\ executingTools' = executingTools \ {e.id}
            /\ disabledBtns' = disabledBtns \ {<<e.b, e.ord>>}
            /\ UNCHANGED callsSent
    /\ UNCHANGED <<doc, len, processedElements, emitted, scanned, idCounter, autoMode>>
    /\ UNCHANGED offPage

\* the MCP_CALL_TOOL reply arrives (or sendMessage throws): resetButtonState,
\* finally
ExecDone(e) ==
    /\ e \in inflight
    /\ e.pc = "call"
    /\ inflight' = inflight \ {e}
    /\ executingTools' = executingTools \ {e.id}
    /\ disabledBtns' = disabledBtns \ {<<e.b, e.ord>>}
    /\ UNCHANGED <<doc, len, processedElements, emitted, scanned, idCounter, autoMode,
                   callsSent>>
    /\ UNCHANGED offPage

\* a page without code blocks, and a parser that is handed nothing: the
\* state of the page and of the parser in the specifications of other parts
PageIdle ==
    /\ doc = [b \in Blocks |-> 1]
    /\ len = [b \in Blocks |-> 0]
    /\ processedElements = {}
    /\ emitted = [b \in Blocks |-> <<>>]
    /\ scanned = FALSE
    /\ idCounter = 0
    /\ autoMode = FALSE
    /\ executingTools = {}
    /\ inflight = {}
    /\ disabledBtns = {}
    /\ callsSent = {}

ParserIdle ==
    /\ ptext = <<>>
    /\ pctr = 0
    /\ pout = <<>>
    /\ pinfo = <<>>
    /\ pclean = <<>>
    /\ pparams = <<>>

\* the page holds an earlier answer with one invocation, and a later answer
\* that streams any text of Docs
Init ==
    /\ doc \in {d \in [Blocks -> 1..Len(Docs)] : d[PreBlocks[1]] = 1}
    /\ len = [b \in Blocks |-> 0]
    /\ processedElements = {}
    /\ emitted = [b \in Blocks |-> <<>>]
    /\ scanned = FALSE
    /\ idCounter = 0
    /\ autoMode \in BOOLEAN
    /\ executingTools = {}
    /\ inflight = {}
    /\ disabledBtns = {}
    /\ callsSent = {}
    /\ ptext = <<>>
    /\ pctr = 0
    /\ pout = <<>>
    /\ pinfo = <<>>
    /\ pclean = <<>>
    /\ pparams = <<>>
    /\ mcp = NewClient
    /\ wst = NewTransport
    /\ bg = NewBackground
    /\ asv = NewAutomation

Next ==
    \/ \E b \in Blocks : Grow(b)
    \/ Scan
    \/ SettingsChange
    \/ \E b \in Blocks : \E k \in 1..Len(emitted[b]) : RunClick(b, k)
    \/ \E e \in inflight : \E connected \in BOOLEAN : ExecStatus(e, connected)
    \/ \E e \in inflight : ExecDone(e)

Spec == Init /\ [][Next]_vars

---------------------------------------------------------------------------
(* The parser and the classifiers applied to every text of a bounded set *)

AllPrefixes(d) == {SubSeq(d, 1, k) : k \in 0..Len(d)}

\* two invocations in two containers
TwoContainers == <<"FC", "Ia1", "xINV", "xFC", "FC", "Ib", "xINV", "xFC">>

\* an invocation whose parameter is a JSON literal
NumberParameter == <<"FC", "Ib", "P", "N", "xP", "xINV", "xFC">>

\* a start object and an end object on one physical line
ConcatenatedLine == <<"SE">>

\* an invocation whose argument is given by a parameter line
ParameterLines == <<"Sa1", "PL", "E">>

Texts ==
    SeqsUpTo(XmlTok, MaxXmlLen) \cup SeqsUpTo(JsonTok, MaxJsonLen)
        \cup UNION {AllPrefixes(cleanCodeBlockText(Docs[d])) : d \in 1..Len(Docs)}
        \cup AllPrefixes(TwoContainers) \cup AllPrefixes(NumberParameter)
        \cup {ConcatenatedLine} \cup AllPrefixes(ParameterLines)

PParse ==
    /\ Len(pout) < MaxParses
    /\ \E now \in Times :
          LET r == parseMessage(ptext, pctr, now)
          IN /\ pout' = Append(pout, r.calls)
             /\ pctr' = r.ctr
    /\ UNCHANGED <<ptext, pinfo, pclean, pparams>>
    /\ UNCHANGED offParser

PClassify ==
    /\ pinfo = <<>>
    /\ pinfo' = <<[info |-> containsFunctionCalls(ptext),
                   streaming |-> isJSONFunctionStreaming(ptext)]>>
    /\ UNCHANGED <<ptext, pctr, pout, pclean, pparams>>
    /\ UNCHANGED offParser

ParseInit ==
    /\ doc = [b \in Blocks |-> 1]
    /\ len = [b \in Blocks |-> 0]
    /\ processedElements = {}
    /\ emitted = [b \in Blocks |-> <<>>]
    /\ scanned = FALSE
    /\ idCounter = 0
    /\ autoMode = FALSE
    /\ executingTools = {}
    /\ inflight = {}
    /\ disabledBtns = {}
    /\ callsSent = {}
    /\ ptext \in Texts
    /\ pctr = 0
    /\ pout = <<>>
    /\ pinfo = <<>>
    /\ pclean = <<>>
    /\ pparams = <<>>
    /\ mcp = NewClient
    /\ wst = NewTransport
    /\ bg = NewBackground
    /\ asv = NewAutomation

ParseNext == PParse \/ PClassify

ParseSpec == ParseInit /\ [][ParseNext]_vars

---------------------------------------------------------------------------
(* The normalizer and the parameter extractor applied to every text of a
   bounded set *)

NormTok == {"LANG", "COPY", "P", "V", "xP"}
ParamTok == {"Sb", "PL", "PLv", "PLw", "PLy", "PPw", "E"}

\* texts of a code block with labels in any place; JSON-Lines texts with
\* parameter lines, where only the last line may still be streaming
NormTexts == SeqsUpTo(NormTok, MaxNormLen)
ParamTexts ==
    {t \in SeqsUpTo(ParamTok, MaxParamLen) : \A i \in 1..(Len(t) - 1) : t[i] # "PPw"}

PClean ==
    /\ pclean = <<>>
    /\ pclean' = <<cleanCodeBlockText(ptext)>>
    /\ UNCHANGED <<ptext, pctr, pout, pinfo, pparams>>
    /\ UNCHANGED offParser

PExtract ==
    /\ pparams = <<>>
    /\ pparams' = <<extractJSONParameters(ptext)>>
    /\ UNCHANGED <<ptext, pctr, pout, pinfo, pclean>>
    /\ UNCHANGED offParser

TextInit ==
    /\ PageIdle
    /\ ptext \in NormTexts \cup ParamTexts
    /\ pctr = 0
    /\ pout = <<>>
    /\ pinfo = <<>>
    /\ pclean = <<>>
    /\ pparams = <<>>
    /\ mcp = NewClient
    /\ wst = NewTransport
    /\ bg = NewBackground
    /\ asv = NewAutomation

TextNext == PClean \/ PExtract

TextSpec == TextInit /\ [][TextNext]_vars

---------------------------------------------------------------------------
(* What a text holds, read off the text alone *)

IsContainerTag(t) == t \in {"FC", "xFC"}

\* the invocation opened at i is closed at j, inside a container that is
\* open before i and closed after j
CompleteInvAt(text, i, j) ==
    /\ i \in 1..Len(text) /\ j \in (i + 1)..Len(text)
    /\ IsInvoke(text[i])
    /\ text[j] = "xINV"
    /\ \A k \in (i + 1)..(j - 1) :
          ~IsInvoke(text[k]) /\ ~IsContainerTag(text[k]) /\ text[k] # "xINV"
    /\ \E o \in 1..(i - 1) :
          /\ text[o] = "FC"
          /\ \A k \in (o + 1)..(i - 1) : ~IsContainerTag(text[k])
    /\ \E c \in (j + 1)..Len(text) :
          /\ text[c] = "xFC"
          /\ \A k \in (j + 1)..(c - 1) : ~IsContainerTag(text[k])

currentText(b) == cleanCodeBlockText(textContent(b))

---------------------------------------------------------------------------
(* Claims checked under Spec *)

C2_NoStreamingCandidateEmitted ==
    \A b \in Blocks : \A k \in 1..Len(emitted[b]) :
        LET e == emitted[b][k]
        IN /\ e.call.rawText[Len(e.call.rawText)] = "xINV"
           /\ includes(e.snap, "xFC")

\* C3: once a scan has run on a text in which an invocation is complete, the
\* invocation has been emitted with the arguments of the complete text.
C3_EmittedWithCompleteArguments ==
    scanned =>
        \A b \in Blocks : \A i, j \in 1..Len(currentText(b)) :
            CompleteInvAt(currentText(b), i, j) =>
                \E k \in 1..Len(emitted[b]) :
                    /\ emitted[b][k].call.toolName = invokeName(currentText(b)[i])
                    /\ emitted[b][k].call.arguments
                          = parseParameters(SubSeq(currentText(b), i + 1, j - 1))

\* C7: an invocation injected in auto mode is executed whatever another
\* block holds: only an invocation of its own block with the same identity
\* may stand in its way.
C7_ExecutedWhateverOtherBlocksHold ==
    \A b \in Blocks : \A k \in 1..Len(emitted[b]) :
        (/\ emitted[b][k].auto
         /\ \A m \in 1..Len(emitted[b]) :
               m # k => emitted[b][m].call.id # emitted[b][k].call.id)
            => emitted[b][k].ran

\* C13: the processed mark is monotonic: no step of any scan, DOM mutation,
\* settings or status change, click or reply removes a <pre> from
\* processedElements.
C13_ProcessedMarkMonotonic ==
    [][processedElements \subseteq processedElements']_vars

\* every block is marked, and one of them was marked before its text was
\* whole and has been scanned again since
C13_Witness ==
    /\ processedElements = Blocks
    /\ scanned
    /\ \A b \in Blocks : len[b] = Len(Docs[doc[b]])
    /\ \E b \in Blocks : Len(emitted[b][1].snap) < Len(currentText(b))

\* C15: once a scan has run on a block whose text is one complete JSON-Lines
\* invocation and nothing else, the block has been emitted as one invocation.
C15_JsonOnlyBlockEmitted ==
    scanned =>
        \A b \in Blocks :
            (/\ currentText(b) # <<>>
             /\ \A i \in 1..Len(currentText(b)) : IsJsonLine(currentText(b)[i])
             /\ IsJsonStart(currentText(b)[1])
             /\ currentText(b)[Len(currentText(b))] = "E")
                => Len(emitted[b]) = 1

\* C14: MCP_CALL_TOOL is sent at most once for an injected invocation: no
\* step sends it for an invocation it was already sent for.
C14_CallToolSentOncePerInvocation ==
    [][\A e \in inflight' \ inflight :
          e.pc = "call" => <<e.b, e.ord>> \notin callsSent]_vars

\* C18: an execution begins either in the step that detects the call, with
\* auto-execute on at that moment, or by a click on the Run button of a call
\* injected earlier in manual mode; MCP_CALL_TOOL is sent only by an
\* execution that has begun.
C18_NoCallWithoutClickOrAutoExecute ==
    [][\A e \in inflight' \ inflight :
          IF e.pc = "status"
          THEN IF e.ord \in 1..Len(emitted[e.b])
               THEN /\ ~emitted[e.b][e.ord].auto
                    /\ <<e.b, e.ord>> \notin disabledBtns
                    /\ <<e.b, e.ord>> \in disabledBtns'
               ELSE autoMode
          ELSE [e EXCEPT !.pc = "status"] \in inflight]_vars

\* MCP_CALL_TOOL has been sent for a call detected with auto-execute on and
\* for a call detected in manual mode
C18_Witness ==
    /\ \E b \in Blocks : \E k \in 1..Len(emitted[b]) :
          emitted[b][k].auto /\ <<b, emitted[b][k].ord>> \in callsSent
    /\ \E b \in Blocks : \E k \in 1..Len(emitted[b]) :
          ~emitted[b][k].auto /\ <<b, emitted[b][k].ord>> \in callsSent

---------------------------------------------------------------------------
(* Claims checked under ParseSpec *)

IsXmlText(text) == \A i \in 1..Len(text) : text[i] \in XmlTok \cup {"P", "V", "N", "xP"}
IsJsonText(text) == \A i \in 1..Len(text) : text[i] \in JsonTok \cup {"SE", "PL"}

InvokeSet(text) == {i \in 1..Len(text) : IsInvoke(text[i])}
StartSet(text) == {i \in 1..Len(text) : IsJsonStart(text[i])}

\* the call was given no call id by its opening marker
synthesized(call) == call.format = "json" \/ invokeCallId(call.rawText[1]) = ""

\* C4: a text holding one invocation, inside its one container, is classified
\* complete if and only if the container and the invocation's own tag pair
\* are both closed.
C4_CompleteIffContainerAndInvokeClosed ==
    \A n \in 1..Len(pinfo) :
        LET fcs == {i \in 1..Len(ptext) : ptext[i] = "FC"}
        IN (/\ IsXmlText(ptext)
            /\ Cardinality(InvokeSet(ptext)) = 1
            /\ Cardinality(fcs) = 1
            /\ \A o \in fcs : \A i \in InvokeSet(ptext) :
                  o < i /\ \A k \in (o + 1)..(i - 1) : ptext[k] # "xFC")
           => (pinfo[n].info.isComplete
                 <=> \E i, j \in 1..Len(ptext) : CompleteInvAt(ptext, i, j))

C6_IdentityIsTheCallId ==
    \A n \in 1..Len(pout) : \A k \in 1..Len(pout[n]) :
        LET opening == pout[n][k].rawText[1]
            given == IF pout[n][k].format = "xml"
                     THEN invokeCallId(opening) ELSE jsonCallId(opening)
        IN given # "" => pout[n][k].id = given

\* the complete invocations of a text, by the position of their opening tag
CompleteSet(text) ==
    {i \in InvokeSet(text) : \E j \in 1..Len(text) : CompleteInvAt(text, i, j)}

closingOf(text, i) == CHOOSE j \in 1..Len(text) : CompleteInvAt(text, i, j)

\* C8: when every invocation of a text is complete, the calls parsed from it
\* are those invocations in document order: the k-th call is the invocation
\* with k - 1 invocations before it.
C8_CompleteInvocationsInDocumentOrder ==
    \A n \in 1..Len(pout) :
        (IsXmlText(ptext) /\ InvokeSet(ptext) = CompleteSet(ptext))
            => /\ Len(pout[n]) = Cardinality(CompleteSet(ptext))
               /\ \A i \in CompleteSet(ptext) :
                     LET k == Cardinality({h \in CompleteSet(ptext) : h <= i})
                     IN /\ pout[n][k].toolName = invokeName(ptext[i])
                        /\ pout[n][k].rawText = SubSeq(ptext, i, closingOf(ptext, i))

\* two complete invocations with different names, in one container or in
\* two, have been parsed
C8_Witness ==
    /\ Len(pout) > 0
    /\ IsXmlText(ptext)
    /\ InvokeSet(ptext) = CompleteSet(ptext)
    /\ \E i, h \in CompleteSet(ptext) : i < h /\ ptext[i] # ptext[h]

\* the containers of a text when every opening tag yields one: a closed one
\* runs to its closing tag, an unclosed one to the end of the text
RECURSIVE everyContainer(_, _)
everyContainer(text, from) ==
    LET i == indexOf(text, "FC", from)
        j == IF i = 0 THEN 0 ELSE indexOf(text, "xFC", i + 1)
    IN IF i = 0 THEN <<>>
       ELSE IF j = 0 THEN <<SubSeq(text, i + 1, Len(text))>>
       ELSE <<SubSeq(text, i + 1, j - 1)>> \o everyContainer(text, j + 1)

\* C9: every <function_calls> of the text yields a container, the unclosed
\* one included, whatever other containers the text holds: the calls parsed
\* are the invocations of all of them.
C9_EveryOpeningTagYieldsAContainer ==
    \A n \in 1..Len(pout) :
        IsXmlText(ptext) =>
            LET want == parseContainers(everyContainer(ptext, 1), 0, 0).calls
            IN /\ Len(pout[n]) = Len(want)
               /\ \A k \in 1..Len(want) :
                     /\ pout[n][k].toolName = want[k].toolName
                     /\ pout[n][k].rawText = want[k].rawText

\* C10: a JSON-Lines text is classified complete only when a
\* function_call_end line follows its last function_call_start line, and is
\* streaming when none does.
C10_CompleteOnlyWithEndAfterStart ==
    \A n \in 1..Len(pinfo) :
        (IsJsonText(ptext) /\ StartSet(ptext) # {})
            => LET last == CHOOSE i \in StartSet(ptext) : \A h \in StartSet(ptext) : h <= i
                   ended == \E e \in (last + 1)..Len(ptext) : ptext[e] = "E"
               IN /\ pinfo[n].info.isComplete => ended
                  /\ ~ended => pinfo[n].streaming

\* C11: a text that is one physical line holding a function_call_start
\* object immediately followed by a function_call_end object yields exactly
\* one invocation, and it is complete.
C11_SingleLineYieldsOneInvocation ==
    \A n \in 1..Len(pout) :
        ptext = ConcatenatedLine
            => /\ Len(pout[n]) = 1
               /\ pout[n][1].toolName = "b"
               /\ \A m \in 1..Len(pinfo) : pinfo[m].info.isComplete

\* C12: the lines start(a, call_id 1), parameter(x, 5), end yield exactly one
\* invocation whose arguments hold x = 5, as the same lines with a
\* function_call_arg line do.
C12_ParameterLinesGiveTypedArguments ==
    \A n \in 1..Len(pout) :
        ptext \in {ParameterLines, <<"Sa1", "A", "E">>}
            => /\ Len(pout[n]) = 1
               /\ pout[n][1].arguments = [x |-> 5]

---------------------------------------------------------------------------
(* Claims checked under TextSpec *)

\* C16: normalization removes only leading labels (a language label, the copy
\* phrase): the cleaned text is the text from its first other token on,
\* unchanged.
C16_NormalizationRemovesOnlyTheLead ==
    \A n \in 1..Len(pclean) :
        \E k \in 0..Len(ptext) :
            /\ \A i \in 1..k : ptext[i] \in {"LANG", "COPY"}
            /\ k < Len(ptext) => ptext[k + 1] \notin {"LANG", "COPY"}
            /\ pclean[n] = SubSeq(ptext, k + 1, Len(ptext))

\* C17: when several parameter entries carry the same key, the extracted
\* arguments hold the value of the entry that comes last in the text, whole
\* line or streaming line.
C17_LastParameterEntryWins ==
    \A n \in 1..Len(pparams) :
        \A i \in 1..Len(ptext) :
            (/\ IsParamLine(ptext[i])
             /\ \A j \in (i + 1)..Len(ptext) :
                   IsParamLine(ptext[j]) => paramKey(ptext[j]) # paramKey(ptext[i]))
                => /\ paramKey(ptext[i]) \in DOMAIN pparams[n]
                   /\ pparams[n][paramKey(ptext[i])] = paramLineValue(ptext[i])

---------------------------------------------------------------------------
(* The MCPClient: connects, lost connections and reconnect timers *)

\* the user connects (background MCP_CONNECT)
ManualConnect(type) ==
    /\ connect(mcp, type, "manual").orphans <= MaxOrphans
    /\ mcp' = [connect(mcp, type, "manual") EXCEPT !.stopped = FALSE]
    /\ UNCHANGED offClient

\* the user disconnects
ManualDisconnect ==
    /\ mcp.client
    /\ disconnect(mcp).orphans <= MaxOrphans
    /\ mcp' = [disconnect(mcp) EXCEPT !.stopped = TRUE]
    /\ UNCHANGED offClient

\* client.connect and fetchTools have returned
ConnectOk ==
    /\ mcp.call # "idle"
    /\ mcp.sock = "connecting"
    /\ mcp' = [mcp EXCEPT !.sock = "open", !.call = "idle", !.reconnectAttempts = 0,
                          !.isInitialized = TRUE, !.autoAttempts = 0,
                          !.broadcast = "true",
                          !.opens = IF @ < 2 THEN @ + 1 ELSE @]
    /\ UNCHANGED offClient

\* the socket fails to open: connect throws, and the transport's close event
\* reaches handleDisconnect (an SSE transport has no such listener)
ConnectFail ==
    /\ mcp.call # "idle"
    /\ mcp.sock = "connecting"
    /\ LET st == [mcp EXCEPT !.sock = "closed", !.call = "idle"]
           nxt == IF mcp.currentType = "websocket" THEN handleDisconnect(st) ELSE st
       IN /\ nxt.timers <= MaxTimers
          /\ mcp' = nxt
    /\ UNCHANGED offClient

\* the open connection is lost
ConnectionLost ==
    /\ mcp.sock = "open"
    /\ LET st == [mcp EXCEPT !.sock = "closed"]
           nxt == IF mcp.currentType = "websocket" THEN handleDisconnect(st) ELSE st
       IN /\ nxt.timers <= MaxTimers
          /\ mcp' = nxt
    /\ UNCHANGED offClient

\* the close event of a socket that disconnect closed
OrphanClose ==
    /\ mcp.orphans > 0
    /\ LET nxt == handleDisconnect([mcp EXCEPT !.orphans = @ - 1])
       IN /\ nxt.timers <= MaxTimers
          /\ mcp' = nxt
    /\ UNCHANGED offClient

\* a reconnect timer fires
TimerFires ==
    /\ mcp.timers > 0
    /\ LET st == [mcp EXCEPT !.timers = @ - 1]
           nxt == IF st.currentType # "none"
                  THEN [connect(st, st.currentType, "auto") EXCEPT
                           !.autoAttempts = IF @ <= maxReconnectAttempts THEN @ + 1 ELSE @]
                  ELSE [st EXCEPT !.dropped = TRUE]
       IN /\ nxt.orphans <= MaxOrphans
          /\ mcp' = nxt
    /\ UNCHANGED offClient

ClientInit ==
    /\ PageIdle
    /\ ParserIdle
    /\ mcp = NewClient
    /\ wst = NewTransport
    /\ bg = NewBackground
    /\ asv = NewAutomation

ClientNext ==
    \/ \E type \in TransportTypes : ManualConnect(type)
    \/ ManualDisconnect
    \/ ConnectOk
    \/ ConnectFail
    \/ ConnectionLost
    \/ OrphanClose
    \/ TimerFires

ClientSpec == ClientInit /\ [][ClientNext]_vars

---------------------------------------------------------------------------
(* Claims checked under ClientSpec *)

\* C19: the client makes at most maxReconnectAttempts automatic connect
\* attempts in a row without a successful connect.
C19_AtMostThreeAutomaticAttempts ==
    mcp.autoAttempts <= maxReconnectAttempts

---------------------------------------------------------------------------
(* The MCPClient's WebSocketTransport: its socket and its message queue *)

\* MCPClient.connect creates a WebSocketTransport and the client starts it
TStart ==
    /\ wst.ws = "null"
    /\ wst' = [wst EXCEPT !.ws = "CONNECTING"]
    /\ UNCHANGED offTransport

\* a message is passed to send
TSend ==
    /\ wst.ws # "null"
    /\ wst.submitted < MaxMessages
    /\ wst' = send([wst EXCEPT !.submitted = @ + 1], wst.submitted + 1)
    /\ UNCHANGED offTransport

\* ws.onopen
TOnOpen ==
    /\ wst.ws = "CONNECTING"
    /\ wst' = processMessageQueue([wst EXCEPT !.ws = "OPEN", !.isConnected = TRUE])
    /\ UNCHANGED offTransport

\* ws.onerror and ws.onclose of a socket that does not open
TOnError ==
    /\ wst.ws = "CONNECTING"
    /\ wst' = [wst EXCEPT !.ws = "CLOSED", !.isConnected = FALSE]
    /\ UNCHANGED offTransport

\* the open socket starts to close: its readyState changes before its close
\* event is dispatched
TClosing ==
    /\ wst.ws = "OPEN"
    /\ wst' = [wst EXCEPT !.ws = "CLOSING"]
    /\ UNCHANGED offTransport

\* ws.onclose
TOnClose ==
    /\ wst.ws = "CLOSING"
    /\ wst' = [wst EXCEPT !.ws = "CLOSED", !.isConnected = FALSE]
    /\ UNCHANGED offTransport

\* MCPClient.disconnect, also the first step of a connect when a client
\* exists: the transport is closed and dropped, and its queue with it
TClose ==
    /\ wst.ws # "null"
    /\ wst' = [wst EXCEPT !.ws = "null", !.isConnected = FALSE, !.messageQueue = <<>>]
    /\ UNCHANGED offTransport

TransportInit ==
    /\ PageIdle
    /\ ParserIdle
    /\ mcp = NewClient
    /\ wst = NewTransport
    /\ bg = NewBackground
    /\ asv = NewAutomation

TransportNext ==
    \/ TStart
    \/ TSend
    \/ TOnOpen
    \/ TOnError
    \/ TClosing
    \/ TOnClose
    \/ TClose

TransportSpec == TransportInit /\ [][TransportNext]_vars

---------------------------------------------------------------------------
(* Claims checked under TransportSpec *)

allSubmitted == [i \in 1..wst.submitted |-> i]

\* C20: once the connection is open, every message that was passed to send,
\* the ones queued while not connected included, has been put on the socket,
\* in the order of the send calls.
C20_QueuedMessagesTransmittedOnOpen ==
    (wst.isConnected /\ wst.ws = "OPEN") => wst.wire = allSubmitted

\* within one transport nothing leaves the queue unsent, and a flush keeps
\* the order
QueueKeptInOrderPerTransport ==
    [][wst.ws # "null" /\ wst'.ws # "null"
         => wst'.wire \o wst'.messageQueue
              = wst.wire \o wst.messageQueue \o
                  (IF wst'.submitted > wst.submitted THEN <<wst'.submitted>> ELSE <<>>)]_vars

\* C21: the client holds at most one open connection: whenever a later
\* connection is connecting or open, every earlier one has been closed, and
\* no socket is left connecting or open on a transport the client dropped.
C21_AtMostOneOpenConnection ==
    mcp.leaked = 0

\* a second connection is open, and the first was closed by the connect that
\* replaced it (its close event is still to come)
C21_Witness ==
    /\ mcp.opens = 2
    /\ mcp.sock = "open"
    /\ mcp.orphans > 0
    /\ mcp.leaked = 0

\* C23: a reconnect timer that fires while the current transport is open
\* leaves it open.
C23_ReconnectKeepsTheOpenTransport ==
    [][(mcp'.timers < mcp.timers /\ mcp.sock = "open") => mcp'.sock = "open"]_vars

\* C24: after disconnect, and until the next connect call from outside, no
\* connect attempt is made: no connect call is in progress and the client
\* has no transport.
C24_NoReconnectAfterDisconnect ==
    mcp.stopped => (mcp.call = "idle" /\ mcp.sock = "none")

\* the client is disconnected, and a reconnect timer that was pending at the
\* disconnect has fired
C24_Witness ==
    /\ mcp.stopped
    /\ mcp.dropped
    /\ mcp.timers = 0
    /\ mcp.orphans = 0

\* C25: when no connect is in progress and no close event is pending, the
\* last MCP_STATUS_CHANGED says connected exactly if the current transport is
\* open.
C25_BroadcastMatchesConnectionState ==
    (mcp.call = "idle" /\ mcp.orphans = 0 /\ mcp.broadcast # "none")
        => (mcp.broadcast = "true" <=> mcp.sock = "open")

\* C26: while the transport of a connect that succeeded is open,
\* isInitialized is true, so that callTool does not reject with 'Client not
\* initialized'.
C26_InitializedWhileTransportOpen ==
    mcp.sock = "open" => mcp.isInitialized

---------------------------------------------------------------------------
(* The background script: settings and connects *)

saved == [uri |-> bg.proxyUrl, type |-> bg.transportType]

\* the Connect button of the popup or the sidebar: the settings are saved,
\* then MCP_CONNECT is sent with them; ok says that client.connect resolved
PopupConnect(config, ok) ==
    /\ bg' = [bg EXCEPT !.proxyUrl = config.uri, !.transportType = config.type,
                        !.by = "popup", !.target = handleConnectConfig(config),
                        !.savedThen = config, !.isConnected = ok]
    /\ UNCHANGED offBackground

\* the Disconnect button: MCP_DISCONNECT
PopupDisconnect ==
    /\ bg.isConnected
    /\ bg' = [bg EXCEPT !.isConnected = FALSE]
    /\ UNCHANGED offBackground

\* chrome.runtime.onStartup
OnStartup(failed, ok) ==
    /\ bg' = [bg EXCEPT !.by = "startup", !.target = getSavedConfig(saved, failed),
                        !.savedThen = IF failed THEN Undefined ELSE saved,
                        !.isConnected = ok]
    /\ UNCHANGED offBackground

\* chrome.runtime.onInstalled
OnInstalled(failed, ok) ==
    /\ bg' = [bg EXCEPT !.by = "install", !.target = getSavedConfig(saved, failed),
                        !.savedThen = IF failed THEN Undefined ELSE saved,
                        !.isConnected = ok]
    /\ UNCHANGED offBackground

\* connectToBackground of a content script that finds the client not
\* connected: MCP_CONNECT without a payload
ContentAutoConnect(ok) ==
    /\ ~bg.isConnected
    /\ bg' = [bg EXCEPT !.by = "content", !.target = handleConnectConfig(Undefined),
                        !.savedThen = saved, !.isConnected = ok]
    /\ UNCHANGED offBackground

BackgroundInit ==
    /\ PageIdle
    /\ ParserIdle
    /\ mcp = NewClient
    /\ wst = NewTransport
    /\ bg = NewBackground
    /\ asv = NewAutomation

BackgroundNext ==
    \/ \E config \in Configs, ok \in BOOLEAN : PopupConnect(config, ok)
    \/ PopupDisconnect
    \/ \E failed, ok \in BOOLEAN : OnStartup(failed, ok)
    \/ \E failed, ok \in BOOLEAN : OnInstalled(failed, ok)
    \/ \E ok \in BOOLEAN : ContentAutoConnect(ok)

BackgroundSpec == BackgroundInit /\ [][BackgroundNext]_vars

---------------------------------------------------------------------------
(* Claims checked under BackgroundSpec *)

\* C30: a connect started by startup, install or a content script targets
\* the saved proxy URL and transport type when both are saved, and
\* DEFAULT_CONFIG when they are not.
C30_AutoConnectTargetsSavedConfig ==
    bg.by \in {"startup", "install", "content"}
        => bg.target = IF bg.savedThen.uri # "" /\ bg.savedThen.type # ""
                       THEN bg.savedThen
                       ELSE DEFAULT_CONFIG

---------------------------------------------------------------------------
(* The AutomationService: tool-execution-complete events and their timers *)

\* mcp:tool-execution-complete is dispatched for event e; result says that
\* its detail carries a result
Dispatch(e, result) ==
    /\ asv.ev[e].pc = "none"
    /\ \A e2 \in Events : e2 < e => asv.ev[e2].pc # "none"
    /\ asv' = handleToolExecutionComplete(asv, e, result)
    /\ UNCHANGED offAutomation

\* the sleep of handleAutoInsert ends: insertText, then back in
\* handleToolExecutionComplete
InsertFires(found) ==
    /\ asv.insertSleep # <<>>
    /\ LET e == Head(asv.insertSleep)
       IN asv' = afterInsert(insertText([asv EXCEPT !.insertSleep = Tail(@)], e, found), e)
    /\ UNCHANGED offAutomation

\* the sleep of handleAutoSubmit ends: clickSendButton
SubmitFires(disabled) ==
    /\ asv.submitSleep # <<>>
    /\ LET e == Head(asv.submitSleep)
       IN asv' = [clickSendButton([asv EXCEPT !.submitSleep = Tail(@)], e, disabled)
                     EXCEPT !.ev[e].pc = "done"]
    /\ UNCHANGED offAutomation

\* toggleAutoInsert
ToggleAutoInsert ==
    /\ asv' = [asv EXCEPT !.autoInsert = ~@]
    /\ UNCHANGED offAutomation

\* toggleAutoSubmit
ToggleAutoSubmit ==
    /\ asv' = [asv EXCEPT !.autoSubmit = ~@]
    /\ UNCHANGED offAutomation

\* the user types into the empty chat input
UserTypes ==
    /\ asv.input = ""
    /\ asv' = [asv EXCEPT !.input = "draft"]
    /\ UNCHANGED offAutomation

AutomationInit ==
    /\ PageIdle
    /\ ParserIdle
    /\ mcp = NewClient
    /\ wst = NewTransport
    /\ bg = NewBackground
    /\ asv = NewAutomation

AutomationNext ==
    \/ \E e \in Events, result \in BOOLEAN : Dispatch(e, result)
    \/ \E found \in BOOLEAN : InsertFires(found)
    \/ \E disabled \in BOOLEAN : SubmitFires(disabled)
    \/ ToggleAutoInsert
    \/ ToggleAutoSubmit
    \/ UserTypes

AutomationSpec == AutomationInit /\ [][AutomationNext]_vars

---------------------------------------------------------------------------
(* Claims checked under AutomationSpec *)

\* C28: the handler of an event clicks the send button only after that
\* event's result was inserted into the chat input.
C28_SubmitOnlyAfterOwnInsert ==
    \A i \in 1..Len(asv.clicks) : asv.ev[asv.clicks[i].event].inserted

\* C29: when the handler of an event whose result was inserted clicks the
\* send button, the chat input holds that event's own wrapped result.
C29_SubmitSendsOwnResult ==
    \A i \in 1..Len(asv.clicks) :
        asv.ev[asv.clicks[i].event].inserted
            => asv.clicks[i].text = wrappedResult(asv.clicks[i].event)

===========================================================================
